---- MODULE Spec2Model ----
(***************************************************************************)
(* Model of the teacher routes (src/backend/routes/teachers.route.js) and  *)
(* of the batch page's derived columns                                     *)
(* (src/frontend/src/pages/admin/Batches.tsx).                             *)
(*                                                                         *)
(* Money is held in whole cents.  A JavaScript Number is modelled as an    *)
(* IEEE-754 double: a record [m, e] standing for m * 2^e, with the         *)
(* significand m an arbitrary-precision natural (a little-endian sequence  *)
(* of limbs), so that `*`, `+` and toFixed(2) round as the engine does.    *)
(***************************************************************************)
EXTENDS Integers, Sequences, FiniteSets, TLC

VARIABLES
    clock,      \* the instant `new Date()` returns, in ticks
    batch,      \* the batch record being rendered (an element of batchesData)
    row,        \* the table row last rendered for it, or NoRow
    teachers,   \* Teacher collection: _id -> document
    batches,    \* Batch collection: _id -> document
    students,   \* Student collection: _id -> document
    sales,      \* Sales collection: _id -> document
    minted,     \* how many ObjectIds of IdOrder have been given to documents
    req,        \* the requests in flight: slot -> handler position and locals
    started,    \* how many requests have been received
    lastList,   \* history: what the last completed listing returned
    page,       \* the useState values of the batch page
    calls,      \* the page's async handlers suspended at an await
    view,       \* the table body last rendered, or NoView
    hist        \* history: the requests the page issued, the row clicked
                \* for deletion, the days toggled since Add Batch was opened

uiVars == <<page, calls, view, hist>>
pageVars == <<clock, batch, row, page, calls, view, hist>>
storeVars == <<teachers, batches, students, sales>>
serverVars == <<teachers, batches, students, sales, minted, req, started, lastList>>
vars == <<clock, batch, row, teachers, batches, students, sales, minted, req,
          started, lastList, page, calls, view, hist>>

----------------------------------------------------------------------------
(* Arbitrary-precision naturals: little-endian limbs, no high zero limb.   *)

Base == 2^15

RECURSIVE BFromInt(_)
BFromInt(n) == IF n = 0 THEN <<>> ELSE <<n % Base>> \o BFromInt(n \div Base)

RECURSIVE BToInt(_)
BToInt(a) == IF a = <<>> THEN 0 ELSE a[1] + Base * BToInt(Tail(a))

RECURSIVE BMulSmallC(_, _, _)
BMulSmallC(a, k, carry) ==
    IF a = <<>> THEN BFromInt(carry)
    ELSE LET v == a[1] * k + carry
         IN  <<v % Base>> \o BMulSmallC(Tail(a), k, v \div Base)

BMulSmall(a, k) == IF k = 0 THEN <<>> ELSE BMulSmallC(a, k, 0)

RECURSIVE BAddC(_, _, _)
BAddC(a, b, carry) ==
    IF a = <<>> /\ b = <<>> THEN BFromInt(carry)
    ELSE LET x == IF a = <<>> THEN 0 ELSE a[1]
             y == IF b = <<>> THEN 0 ELSE b[1]
             v == x + y + carry
         IN  <<v % Base>> \o BAddC(IF a = <<>> THEN a ELSE Tail(a),
                                   IF b = <<>> THEN b ELSE Tail(b),
                                   v \div Base)

BAdd(a, b) == BAddC(a, b, 0)

BShiftLimb(a) == IF a = <<>> THEN a ELSE <<0>> \o a

RECURSIVE BMul(_, _)
BMul(a, b) ==
    IF a = <<>> \/ b = <<>> THEN <<>>
    ELSE BAdd(BMulSmall(b, a[1]), BShiftLimb(BMul(Tail(a), b)))

\* quotient and remainder of a by a small divisor d
RECURSIVE BDivSmall(_, _)
BDivSmall(a, d) ==
    IF a = <<>> THEN [q |-> <<>>, r |-> 0]
    ELSE LET hi == BDivSmall(Tail(a), d)
             v  == hi.r * Base + a[1]
             dq == v \div d
         IN  [q |-> IF hi.q = <<>> /\ dq = 0 THEN <<>> ELSE <<dq>> \o hi.q,
              r |-> v % d]

RECURSIVE BLessFrom(_, _, _)
BLessFrom(a, b, i) ==
    IF i = 0 THEN FALSE
    ELSE IF a[i] # b[i] THEN a[i] < b[i]
    ELSE BLessFrom(a, b, i - 1)

BLess(a, b) ==
    IF Len(a) # Len(b) THEN Len(a) < Len(b) ELSE BLessFrom(a, b, Len(a))

BIsOdd(a) == a # <<>> /\ a[1] % 2 = 1

\* the largest shift done in one limb operation
ChunkBits == 14

Min(x, y) == IF x < y THEN x ELSE y

\* a * 2^k
RECURSIVE BShiftLeft(_, _)
BShiftLeft(a, k) ==
    IF k = 0 THEN a
    ELSE LET j == Min(k, ChunkBits)
         IN  BShiftLeft(BMulSmall(a, 2^j), k - j)

\* floor(a / 2^k), and whether a nonzero bit was dropped
RECURSIVE BShiftRight(_, _)
BShiftRight(a, k) ==
    IF k = 0 THEN [q |-> a, sticky |-> FALSE]
    ELSE LET j    == Min(k, ChunkBits)
             d    == BDivSmall(a, 2^j)
             rest == BShiftRight(d.q, k - j)
         IN  [q |-> rest.q, sticky |-> rest.sticky \/ d.r # 0]

RECURSIVE BitLenSmall(_)
BitLenSmall(v) == IF v = 0 THEN 0 ELSE 1 + BitLenSmall(v \div 2)

BPow2(k) == BShiftLeft(<<1>>, k)

\* number of bits of a
BBitLen(a) ==
    IF a = <<>> THEN 0
    ELSE BitLenSmall(Base - 1) * (Len(a) - 1) + BitLenSmall(a[Len(a)])

----------------------------------------------------------------------------
(* IEEE-754 binary64 arithmetic on [m, e] = m * 2^e, round-to-nearest-even. *)

MantBits == 53

DZero == [m |-> <<>>, e |-> 0]

\* (m + f) * 2^e, with 0 <= f < 1 and sticky telling f # 0, rounded to a
\* significand of MantBits bits: to nearest, ties to even.
DRoundSticky(m, e, sticky) ==
    LET k == BBitLen(m) - MantBits
    IN  IF k <= 0 THEN [m |-> m, e |-> e]
        ELSE LET low   == BShiftRight(m, k - 1)
                 h     == BDivSmall(low.q, 2)
                 guard == h.r = 1
                 rest  == low.sticky \/ sticky
             IN  [m |-> IF guard /\ (rest \/ BIsOdd(h.q)) THEN BAdd(h.q, <<1>>) ELSE h.q,
                  e |-> e + k]

DRound(m, e) == IF m = <<>> THEN DZero ELSE DRoundSticky(m, e, FALSE)

\* The double nearest to num/den: what the engine makes of a decimal
\* literal such as 0.3 (3/10), or of the JSON number 12.34 (1234/100).
\* The quotient is taken with at least one bit more than the significand
\* holds, so that it is rounded once.
DoubleOfRatio(num, den) ==
    IF num = 0 THEN DZero
    ELSE LET n == BFromInt(num)
             s == MantBits + 1 + BitLenSmall(den) - BBitLen(n)
             d == BDivSmall(BShiftLeft(n, s), den)
         IN  DRoundSticky(d.q, 0 - s, d.r # 0)

\* x * y
DMul(x, y) == DRound(BMul(x.m, y.m), x.e + y.e)

\* x + y
DAdd(x, y) ==
    IF x.m = <<>> THEN y
    ELSE IF y.m = <<>> THEN x
    ELSE LET e == Min(x.e, y.e)
         IN  DRound(BAdd(BShiftLeft(x.m, x.e - e), BShiftLeft(y.m, y.e - e)), e)

\* Number.prototype.toFixed(2) of x >= 0: the integer n for which n/100 - x
\* is closest to zero, the larger n when there are two, that is
\* floor((200 * x + 1) / 2).  The string returned is n written with two
\* decimals; n (cents) stands for it.
ToFixed2(x) ==
    IF x.m = <<>> THEN 0
    ELSE LET q == BMulSmall(x.m, 200)
             h == IF x.e >= 0 THEN BShiftLeft(q, x.e) ELSE BShiftRight(q, 0 - x.e).q
             f == BDivSmall(h, 2)
         IN  BToInt(f.q) + f.r

----------------------------------------------------------------------------
(* Batches.tsx: the derived status and the revenue-share cells.            *)

\* A date string is either "YYYY-MM-DD", held as its day number, or
\* Garbage, a string `new Date` cannot parse.
MaxDay == 3
TicksPerDay == 2
Garbage == [valid |-> FALSE, day |-> 0]
DateString(d) == [valid |-> TRUE, day |-> d]
DateStrings == {DateString(d) : d \in 0..MaxDay} \cup {Garbage}
MaxInstant == TicksPerDay * (MaxDay + 1)

\* new Date(s): a time value, or Invalid Date (NaN)
NewDate(s) ==
    IF ~s.valid THEN [nan |-> TRUE, t |-> 0]
    ELSE [nan |-> FALSE, t |-> s.day * TicksPerDay]

\* a < b on Date objects: the comparison of their time values; false if
\* either is NaN
DateLess(a, b) == ~a.nan /\ ~b.nan /\ a.t < b.t

\* mutant: the start instant itself counts as upcoming
getBatchStatusStartExclusive(startDate, endDate) ==
    LET now   == [nan |-> FALSE, t |-> clock]
        start == NewDate(startDate)
        end   == NewDate(endDate)
    IN  IF DateLess(now, start) \/ now = start THEN "upcoming"
        ELSE IF DateLess(end, now) THEN "completed"
        ELSE "ongoing"

\* mutant: the end is tested before the start
getBatchStatusEndFirst(startDate, endDate) ==
    LET now   == [nan |-> FALSE, t |-> clock]
        start == NewDate(startDate)
        end   == NewDate(endDate)
    IN  IF DateLess(end, now) THEN "completed"
        ELSE IF DateLess(now, start) THEN "upcoming"
        ELSE "ongoing"

getBatchStatus(startDate, endDate) ==
    LET now   == [nan |-> FALSE, t |-> clock]
        start == NewDate(startDate)
        end   == NewDate(endDate)
    IN  IF DateLess(now, start) THEN "upcoming"
        ELSE IF DateLess(end, now) THEN "completed"
        ELSE "ongoing"

\* batch.revenue arrives as a JSON number with at most two decimals
RevenueNumber(cents) == DoubleOfRatio(cents, 100)

\* (batch.revenue * 0.2).toFixed(2)
TeacherShareCell(b) == ToFixed2(DMul(RevenueNumber(b.revenue), DoubleOfRatio(2, 10)))

\* (batch.revenue * 0.3).toFixed(2)
PlatformShareCell(b) == ToFixed2(DMul(RevenueNumber(b.revenue), DoubleOfRatio(3, 10)))

NoRow == [status |-> "none", teacherShare |-> 0, platformShare |-> 0]
NoView == [rendered |-> FALSE, rows |-> <<>>]

\* One render of the row: batchesWithStatus, then the table cells.
RenderRow ==
    /\ row' = [status        |-> getBatchStatus(batch.startDate, batch.endDate),
               teacherShare  |-> TeacherShareCell(batch),
               platformShare |-> PlatformShareCell(batch)]
    /\ UNCHANGED <<clock, batch>>
    /\ UNCHANGED uiVars
    /\ UNCHANGED serverVars

\* Time passes between renders.
Tick ==
    /\ clock < MaxInstant
    /\ clock' = clock + 1
    /\ row' = NoRow
    /\ view' = NoView
    /\ UNCHANGED <<batch, page, calls, hist>>
    /\ UNCHANGED serverVars

MaxRevenueCents == 10000

----------------------------------------------------------------------------
(* Batches.tsx: the component state, the dialogs and the handlers.         *)

\* A string is a sequence of one-letter strings; "" is <<>>.
Letters == {"a", "A", "b", "B"}

\* String.prototype.toLowerCase, letter by letter
LowerLetter(c) == IF c = "A" THEN "a" ELSE IF c = "B" THEN "b" ELSE c
toLowerCase(s) == [k \in DOMAIN s |-> LowerLetter(s[k])]

\* String.prototype.includes
includes(hay, needle) ==
    \E k \in 0..(Len(hay) - Len(needle)) :
        \A j \in 1..Len(needle) : hay[k + j] = needle[j]

\* a batchName: a string, or undefined
Name(s) == [defined |-> TRUE, text |-> s]
NoName == [defined |-> FALSE, text |-> <<>>]

\* batch.batchName?.toLowerCase() || ""
LowerName(n) == IF n.defined THEN toLowerCase(n.text) ELSE <<>>

Tabs == {"all", "ongoing", "upcoming", "completed"}
Days == {"Monday", "Wednesday"}

\* the batches the batch API may hold; the status field is whatever was
\* stored, the dates decide nothing about it
BatchA ==
    [_id |-> 1, batchName |-> Name(<<"a", "B">>), status |-> "ongoing",
     startDate |-> DateString(0), endDate |-> DateString(MaxDay),
     scheduleDays |-> <<"Monday", "Wednesday">>]
BatchB ==
    [_id |-> 2, batchName |-> Name(<<"b">>), status |-> "completed",
     startDate |-> DateString(1), endDate |-> DateString(MaxDay),
     scheduleDays |-> <<"Wednesday">>]
NoBatch ==
    [_id |-> 0, batchName |-> NoName, status |-> "", startDate |-> Garbage,
     endDate |-> Garbage, scheduleDays |-> <<>>]

\* what GET /api/batches may answer
FetchResults == {<<>>, <<BatchA, BatchB>>}

\* mutant: a status the record carries is kept
batchesWithStoredStatus(data) ==
    [k \in DOMAIN data |->
        IF data[k].status # "" THEN data[k]
        ELSE [data[k] EXCEPT !.status = getBatchStatus(data[k].startDate, data[k].endDate)]]

\* batchesData.map(batch => ({ ...batch, status: getBatchStatus(...) }))
batchesWithStatus(data) ==
    [k \in DOMAIN data |->
        [data[k] EXCEPT !.status = getBatchStatus(data[k].startDate, data[k].endDate)]]

\* batchesWithStatus.filter(...)
filteredBatches(data, searchTerm, activeTab) ==
    SelectSeq(batchesWithStatus(data),
              LAMBDA b : /\ includes(LowerName(b.batchName), toLowerCase(searchTerm))
                         /\ (activeTab = "all" \/ b.status = activeTab))

\* the useState values of AdminBatches
PageState(data) ==
    [searchTerm |-> <<>>, activeTab |-> "all",
     showAddBatchDialog |-> FALSE, showEditBatchDialog |-> FALSE,
     showDeleteDialog |-> FALSE, selectedDays |-> <<>>,
     currentBatch |-> NoBatch, isLoading |-> FALSE, batchesData |-> data]

NoRequest == [method |-> "", id |-> 0, scheduleDays |-> <<>>]
NoHist == [clicked |-> 0, toggled |-> {}, n |-> 0, last |-> NoRequest]

MaxCalls == 2
MaxSent == 2

\* a dialog is modal: while one is open nothing outside it can be clicked
NoDialog ==
    /\ ~page.showAddBatchDialog
    /\ ~page.showEditBatchDialog
    /\ ~page.showDeleteDialog

\* the table body shows the rows of filteredBatches unless isLoading
RowsShown ==
    IF page.isLoading THEN <<>>
    ELSE filteredBatches(page.batchesData, page.searchTerm, page.activeTab)

\* fetch(url, { method, body }): the request leaves the page
Issue(method, id, days) ==
    [hist EXCEPT !.n = hist.n + 1,
                 !.last = [method |-> method, id |-> id, scheduleDays |-> days]]

\* an async handler suspended at its await
Call(kind, id, data) == [kind |-> kind, id |-> id, data |-> data]
Without(k) == SubSeq(calls, 1, k - 1) \o SubSeq(calls, k + 1, Len(calls))

PageFrame ==
    /\ UNCHANGED <<clock, batch, row, view>>
    /\ UNCHANGED serverVars

\* the Add Batch button: setShowAddBatchDialog(true)
OpenAddDialog ==
    /\ NoDialog
    /\ page' = [page EXCEPT !.showAddBatchDialog = TRUE]
    /\ hist' = [hist EXCEPT !.toggled = {}]
    /\ UNCHANGED calls
    /\ PageFrame

\* Cancel, or onOpenChange(false): setShowAddBatchDialog(false)
CloseAddDialog ==
    /\ page.showAddBatchDialog
    /\ page' = [page EXCEPT !.showAddBatchDialog = FALSE]
    /\ UNCHANGED <<calls, hist>>
    /\ PageFrame

\* the day buttons of the Add and the Edit dialog
handleDayToggle(day) ==
    /\ page.showAddBatchDialog \/ page.showEditBatchDialog
    /\ page' = [page EXCEPT !.selectedDays =
                   IF \E k \in DOMAIN page.selectedDays : page.selectedDays[k] = day
                   THEN SelectSeq(page.selectedDays, LAMBDA d : d # day)
                   ELSE Append(page.selectedDays, day)]
    /\ hist' = [hist EXCEPT !.toggled =
                   IF day \in hist.toggled THEN hist.toggled \ {day}
                   ELSE hist.toggled \cup {day}]
    /\ UNCHANGED calls
    /\ PageFrame

\* form.handleSubmit(handleAddBatch), up to the await of fetch
handleAddBatch ==
    /\ page.showAddBatchDialog /\ ~page.isLoading
    /\ hist.n < MaxSent /\ Len(calls) < MaxCalls
    /\ hist' = Issue("POST", 0, page.selectedDays)
    /\ calls' = Append(calls, Call("add", 0, <<>>))
    /\ UNCHANGED page
    /\ PageFrame

\* handleAddBatch after the await: response.ok, or the catch block
AddBatchDone(k, ok) ==
    /\ calls[k].kind = "add"
    /\ IF ok
       THEN /\ page' = [page EXCEPT !.isLoading = TRUE,
                                    !.selectedDays = <<>>,
                                    !.showAddBatchDialog = FALSE]
            /\ calls' = Append(Without(k), Call("fetch", 0, <<>>))
       ELSE /\ calls' = Without(k)
            /\ UNCHANGED page
    /\ UNCHANGED hist
    /\ PageFrame

\* the Edit Batch item of a row's menu
handleEditBatch(batchId) ==
    /\ NoDialog
    /\ \E k \in DOMAIN RowsShown : RowsShown[k]._id = batchId
    /\ LET found == SelectSeq(page.batchesData, LAMBDA b : b._id = batchId)
       IN  page' = [page EXCEPT !.currentBatch = found[1],
                                !.selectedDays = found[1].scheduleDays,
                                !.showEditBatchDialog = TRUE]
    /\ UNCHANGED <<calls, hist>>
    /\ PageFrame

\* Cancel, or onOpenChange(false): setShowEditBatchDialog(false)
CloseEditDialog ==
    /\ page.showEditBatchDialog
    /\ page' = [page EXCEPT !.showEditBatchDialog = FALSE]
    /\ UNCHANGED <<calls, hist>>
    /\ PageFrame

\* editForm.handleSubmit(handleUpdateBatch), up to the await of fetch
handleUpdateBatch ==
    /\ page.showEditBatchDialog /\ ~page.isLoading
    /\ hist.n < MaxSent /\ Len(calls) < MaxCalls
    /\ IF page.currentBatch = NoBatch
       THEN UNCHANGED <<page, calls, hist>>
       ELSE /\ page' = [page EXCEPT !.isLoading = TRUE]
            /\ hist' = Issue("PUT", page.currentBatch._id, page.selectedDays)
            /\ calls' = Append(calls, Call("update", page.currentBatch._id, <<>>))
    /\ PageFrame

\* handleUpdateBatch after the await; fetchBatches() sets isLoading, the
\* finally block clears it in the same batch of updates
UpdateBatchDone(k, ok) ==
    /\ calls[k].kind = "update"
    /\ IF ok
       THEN /\ page' = [page EXCEPT !.showEditBatchDialog = FALSE,
                                    !.selectedDays = <<>>,
                                    !.currentBatch = NoBatch,
                                    !.isLoading = FALSE]
            /\ calls' = Append(Without(k), Call("fetch", 0, <<>>))
       ELSE /\ page' = [page EXCEPT !.isLoading = FALSE]
            /\ calls' = Without(k)
    /\ UNCHANGED hist
    /\ PageFrame

\* mutant: the dialog opens on whatever batch was current
handleDeleteClickKeepsCurrent(b) ==
    /\ NoDialog
    /\ \E k \in DOMAIN RowsShown : RowsShown[k] = b
    /\ page' = [page EXCEPT !.showDeleteDialog = TRUE]
    /\ hist' = [hist EXCEPT !.clicked = b._id]
    /\ UNCHANGED calls
    /\ PageFrame

\* the Delete Batch item of a row's menu
handleDeleteClick(b) ==
    /\ NoDialog
    /\ \E k \in DOMAIN RowsShown : RowsShown[k] = b
    /\ page' = [page EXCEPT !.currentBatch = b, !.showDeleteDialog = TRUE]
    /\ hist' = [hist EXCEPT !.clicked = b._id]
    /\ UNCHANGED calls
    /\ PageFrame

\* AlertDialogCancel, or onOpenChange(false): setShowDeleteDialog(false)
CancelDelete ==
    /\ page.showDeleteDialog
    /\ page' = [page EXCEPT !.showDeleteDialog = FALSE]
    /\ hist' = [hist EXCEPT !.clicked = 0]
    /\ UNCHANGED calls
    /\ PageFrame

\* AlertDialogAction: handleDeleteConfirm up to the await of fetch; the
\* action button also closes the dialog
handleDeleteConfirm ==
    /\ page.showDeleteDialog /\ ~page.isLoading
    /\ hist.n < MaxSent /\ Len(calls) < MaxCalls
    /\ IF page.currentBatch = NoBatch
       THEN /\ page' = [page EXCEPT !.showDeleteDialog = FALSE]
            /\ hist' = [hist EXCEPT !.clicked = 0]
            /\ UNCHANGED calls
       ELSE /\ page' = [page EXCEPT !.isLoading = TRUE, !.showDeleteDialog = FALSE]
            /\ hist' = [Issue("DELETE", page.currentBatch._id, <<>>)
                           EXCEPT !.clicked = 0]
            /\ calls' = Append(calls, Call("delete", page.currentBatch._id,
                                           page.batchesData))
    /\ PageFrame

\* handleDeleteConfirm after the await; batchesData is the one of the
\* render the handler was created in
DeleteBatchDone(k, ok) ==
    /\ calls[k].kind = "delete"
    /\ IF ok
       THEN page' = [page EXCEPT !.batchesData =
                                     SelectSeq(calls[k].data,
                                               LAMBDA b : b._id # calls[k].id),
                                 !.showDeleteDialog = FALSE,
                                 !.currentBatch = NoBatch,
                                 !.isLoading = FALSE]
       ELSE page' = [page EXCEPT !.isLoading = FALSE]
    /\ hist' = [hist EXCEPT !.clicked = IF ok THEN 0 ELSE hist.clicked]
    /\ calls' = Without(k)
    /\ PageFrame

\* fetchBatches after the await: setBatchesData(data), or the catch block
FetchBatchesDone(k, ok, data) ==
    /\ calls[k].kind = "fetch"
    /\ page' = [page EXCEPT !.batchesData = IF ok THEN data ELSE page.batchesData,
                            !.isLoading = FALSE]
    /\ calls' = Without(k)
    /\ UNCHANGED hist
    /\ PageFrame

\* the search box: setSearchTerm(e.target.value)
SetSearchTerm(term) ==
    /\ page.searchTerm # term
    /\ page' = [page EXCEPT !.searchTerm = term]
    /\ view' = NoView
    /\ UNCHANGED <<clock, batch, row, calls, hist>>
    /\ UNCHANGED serverVars

\* the tabs: onValueChange={setActiveTab}
SetActiveTab(tab) ==
    /\ page.activeTab # tab
    /\ page' = [page EXCEPT !.activeTab = tab]
    /\ view' = NoView
    /\ UNCHANGED <<clock, batch, row, calls, hist>>
    /\ UNCHANGED serverVars

\* one render of the table body
RenderList ==
    /\ view' = [rendered |-> TRUE,
                rows |-> filteredBatches(page.batchesData, page.searchTerm,
                                         page.activeTab)]
    /\ UNCHANGED <<clock, batch, row, page, calls, hist>>
    /\ UNCHANGED serverVars

----------------------------------------------------------------------------
(* teachers.route.js: the record store and the requests.                   *)

\* ObjectIds, in the order they are minted; a document's _id is never
\* reused.  BadId is a string that is no ObjectId.
IdOrder == <<"t1", "t2", "t3", "t4">>
ValidIds == {IdOrder[k] : k \in DOMAIN IdOrder}
BadId == "not-an-id"

\* mongoose.Types.ObjectId.isValid
IsValidId(id) == id \in ValidIds

BatchIds == {"b1", "b2", "b3"}
StudentIds == {"s1", "s2"}
SaleOrder == <<"x1", "x2", "x3", "x4">>
SaleIds == {SaleOrder[k] : k \in DOMAIN SaleOrder}
NoRef == "unset"

Range(f) == {f[k] : k \in DOMAIN f}

\* bcrypt.hash(password, salt)
Hashed(password) == <<"bcrypt", password>>

InitialTeachers ==
    ("t1" :> [name |-> "Ann", email |-> "ann@x", phone |-> "555",
              specialization |-> "math", status |-> "active",
              totalEarnings |-> 0, role |-> "Teacher",
              password |-> Hashed("pw")])
    @@
    ("t2" :> [name |-> "Bob", email |-> "bob@x", phone |-> "555",
              specialization |-> "math", status |-> "active",
              totalEarnings |-> 0, role |-> "Teacher",
              password |-> Hashed("pw")])

InitialBatches ==
    ("b1" :> [teacher |-> "t1", batchName |-> "B1"])
    @@ ("b2" :> [teacher |-> "t2", batchName |-> "B2"])
    @@ ("b3" :> [teacher |-> "t1", batchName |-> "B3"])

InitialStudents ==
    ("s1" :> [teachers |-> <<"t1">>, name |-> "S1"])
    @@ ("s2" :> [teachers |-> <<"t2", "t1">>, name |-> "S2"])

\* amounts in cents; x1, x2, x3 are the sales of the earnings example
InitialSales ==
    ("x1" :> [student |-> "s1", amount |-> 5000, status |-> "completed"])
    @@ ("x2" :> [student |-> "s2", amount |-> 3000, status |-> "completed"])
    @@ ("x3" :> [student |-> "s1", amount |-> 100000, status |-> "pending"])
    @@ ("x4" :> [student |-> "s2", amount |-> 25, status |-> "pending"])

\* what a client may send
DeleteIds == {"t1", "t2", "t3", BadId}
RequestIds == {"t1", "t3", BadId}
PutBodies ==
    [name : {"Zed"}, email : {"ann@x", "bob@x", "cy@x"}, phone : {"555"},
     specialization : {"math"}, status : {"inactive"}, password : {""}]
PostBodies ==
    [name : {"Cy"}, email : {"", "bob@x", "cy@x"}, phone : {"555"},
     specialization : {"math"}, status : {""}, password : {"pw"}]
NoBody ==
    [name |-> "", email |-> "", phone |-> "", specialization |-> "",
     status |-> "", password |-> ""]

NoOut == <<>>
NoList == [valid |-> FALSE, quiet |-> FALSE, again |-> FALSE, out |-> NoOut]

Idle ==
    [op |-> "idle", pc |-> "idle", id |-> "", body |-> NoBody, docs |-> <<>>,
     i |-> 0, studs |-> {}, val |-> 0, code |-> 0, msg |-> "", out |-> NoOut,
     threw |-> FALSE]

Slots == {1, 2}
MaxRequests == 2
MaxSeqRequests == 3

InFlight(p) == req[p].pc \notin {"idle", "done"}

\* res.status(code).json(...): the handler is over
Respond(r, code, msg, out) ==
    [Idle EXCEPT !.op = r.op, !.id = r.id, !.body = r.body,
                 !.pc = "done", !.code = code, !.msg = msg, !.out = out]

ServerInit ==
    /\ teachers = InitialTeachers
    /\ batches = InitialBatches
    /\ students = InitialStudents
    /\ sales = InitialSales
    /\ minted = 2
    /\ req = [p \in Slots |-> Idle]
    /\ started = 0
    /\ lastList = NoList

\* A write by anything but a listing ends the "between two listings" span
\* in which nothing was written; one to Students or Sales also ends the
\* span in which Students and Sales are unchanged.
AfterWrite(h, touchesStudentsOrSales) ==
    [h EXCEPT !.quiet = FALSE,
              !.valid = h.valid /\ ~touchesStudentsOrSales]

\* A request is held in the lowest slot that has none in flight.
Receive(p, r) ==
    /\ ~InFlight(p)
    /\ \A q \in Slots : q < p => InFlight(q)
    /\ started' = started + 1
    /\ req' = [req EXCEPT ![p] = r]
    /\ UNCHANGED <<teachers, batches, students, sales, minted, lastList>>
    /\ UNCHANGED pageVars

\* Every handler's catch block: the awaited store call rejected.
CatchMessage(op) ==
    CASE op = "list" -> "Failed to fetch teachers"
      [] op = "post" -> "Internal server error"
      [] OTHER       -> "Server Error"

\* mutant: the catch block answers with an empty success
StoreThrowsAnswers200(p) ==
    /\ InFlight(p)
    /\ req' = [req EXCEPT ![p] =
                  [Respond(req[p], 200, "", NoOut) EXCEPT !.threw = TRUE]]
    /\ UNCHANGED <<teachers, batches, students, sales, minted, started, lastList>>
    /\ UNCHANGED pageVars

\* mutant: a failure inside the loop of the listing is caught per teacher
\* and the loop goes on with the next one
StoreThrowsSkipsTeacher(p) ==
    /\ InFlight(p)
    /\ LET r == req[p]
       IN  req' = [req EXCEPT ![p] =
                      IF r.pc \in {"L_students", "L_sales", "L_save"}
                      THEN [r EXCEPT !.i = r.i + 1, !.threw = TRUE,
                                     !.pc = IF r.i < Len(r.docs) THEN "L_students"
                                            ELSE "L_refetch"]
                      ELSE [Respond(r, 500, CatchMessage(r.op), NoOut)
                               EXCEPT !.threw = TRUE]]
    /\ UNCHANGED <<teachers, batches, students, sales, minted, started, lastList>>
    /\ UNCHANGED pageVars

StoreThrows(p) ==
    /\ InFlight(p)
    /\ req' = [req EXCEPT ![p] =
                  [Respond(req[p], 500, CatchMessage(req[p].op), NoOut)
                      EXCEPT !.threw = TRUE]]
    /\ UNCHANGED <<teachers, batches, students, sales, minted, started, lastList>>
    /\ UNCHANGED pageVars

----------------------------------------------------------------------------
(* GET /api/teachers                                                       *)

ListReceive(p) ==
    Receive(p, [Idle EXCEPT !.op = "list", !.pc = "L_find"])

\* Teacher.find(): the documents in _id order
TeacherFind ==
    LET ids == SelectSeq(IdOrder, LAMBDA t : t \in DOMAIN teachers)
    IN  [k \in DOMAIN ids |-> [id |-> ids[k], totalEarnings |-> teachers[ids[k]].totalEarnings]]

\* const teachers = await Teacher.find()
ListFind(p) ==
    /\ req[p].pc = "L_find"
    /\ LET docs == TeacherFind
       IN  req' = [req EXCEPT ![p].docs = docs,
                              ![p].i = 1,
                              ![p].pc = IF docs = <<>> THEN "L_refetch" ELSE "L_students"]
    /\ UNCHANGED <<teachers, batches, students, sales, minted, started, lastList>>
    /\ UNCHANGED pageVars

\* Student.find({ teachers: id }), mapped to the students' ids
StudentIdsOf(id) == {s \in StudentIds : id \in Range(students[s].teachers)}

\* const students = await Student.find({ teachers: teacher._id })
ListStudents(p) ==
    /\ req[p].pc = "L_students"
    /\ req' = [req EXCEPT ![p].studs = StudentIdsOf(req[p].docs[req[p].i].id),
                          ![p].pc = "L_sales"]
    /\ UNCHANGED <<teachers, batches, students, sales, minted, started, lastList>>
    /\ UNCHANGED pageVars

\* Sales.find({ student: { $in: studentIds }, status: 'completed' })
SalesFind(studentIds) ==
    SelectSeq(SaleOrder,
              LAMBDA x : sales[x].student \in studentIds /\ sales[x].status = "completed")

\* the amount field as the Number the driver hands over
AmountNumber(cents) == DoubleOfRatio(cents, 100)

\* sales.reduce((sum, sale) => sum + sale.amount, 0)
RECURSIVE SumAmounts(_, _)
SumAmounts(found, sum) ==
    IF found = <<>> THEN sum
    ELSE SumAmounts(Tail(found), DAdd(sum, AmountNumber(sales[Head(found)].amount)))

\* mutant: every sale of the students counts, whatever its status
SalesFindAnyStatus(studentIds) ==
    SelectSeq(SaleOrder, LAMBDA x : sales[x].student \in studentIds)

\* parseFloat((totalEarnings * 0.3).toFixed(2)), in cents
EarningsOf(found) == ToFixed2(DMul(SumAmounts(found, DZero), DoubleOfRatio(3, 10)))

\* mutant: the new value is added to the one the document was loaded with
NewEarningsAccumulated(prior, found) == prior + EarningsOf(found)

\* teacher.totalEarnings = ...: the value assigned to the loaded document
NewEarnings(prior, found) == EarningsOf(found)

\* const sales = await Sales.find(...); teacher.totalEarnings = ...
ListSales(p) ==
    /\ req[p].pc = "L_sales"
    /\ req' = [req EXCEPT ![p].val = NewEarnings(req[p].docs[req[p].i].totalEarnings,
                                                  SalesFind(req[p].studs)),
                          ![p].pc = "L_save"]
    /\ UNCHANGED <<teachers, batches, students, sales, minted, started, lastList>>
    /\ UNCHANGED pageVars

\* mutant: the write is skipped when the stored value is no longer the
\* one loaded (a version check)
ListSaveIfUnchanged(p) ==
    /\ req[p].pc = "L_save"
    /\ LET r    == req[p]
           doc  == r.docs[r.i]
           more == r.i < Len(r.docs)
           next == [r EXCEPT !.i = r.i + 1,
                             !.pc = IF more THEN "L_students" ELSE "L_refetch"]
       IN  IF doc.id \in DOMAIN teachers
           THEN /\ teachers' = IF r.val = doc.totalEarnings
                                  \/ teachers[doc.id].totalEarnings # doc.totalEarnings
                               THEN teachers
                               ELSE [teachers EXCEPT ![doc.id].totalEarnings = r.val]
                /\ req' = [req EXCEPT ![p] = next]
           ELSE /\ teachers' = teachers
                /\ \E rejects \in {TRUE} \cup {r.val # doc.totalEarnings} :
                      req' = [req EXCEPT ![p] =
                                 IF rejects
                                 THEN [Respond(r, 500, CatchMessage("list"), NoOut)
                                          EXCEPT !.threw = TRUE]
                                 ELSE next]
    /\ UNCHANGED <<batches, students, sales, minted, started, lastList>>
    /\ UNCHANGED pageVars

\* mutant: the save is an upsert, a document that is gone is written anew
ListSaveUpserts(p) ==
    /\ req[p].pc = "L_save"
    /\ LET r    == req[p]
           doc  == r.docs[r.i]
           more == r.i < Len(r.docs)
           next == [r EXCEPT !.i = r.i + 1,
                             !.pc = IF more THEN "L_students" ELSE "L_refetch"]
       IN  IF doc.id \in DOMAIN teachers
           THEN /\ teachers' = IF r.val = doc.totalEarnings THEN teachers
                               ELSE [teachers EXCEPT ![doc.id].totalEarnings = r.val]
                /\ req' = [req EXCEPT ![p] = next]
           ELSE /\ teachers' = teachers @@
                               (doc.id :> [InitialTeachers["t1"] EXCEPT
                                              !.totalEarnings = r.val])
                /\ req' = [req EXCEPT ![p] = next]
    /\ UNCHANGED <<batches, students, sales, minted, started, lastList>>
    /\ UNCHANGED pageVars

\* await teacher.save(): an update of the modified paths, here at most
\* totalEarnings, which is modified when the value assigned differs from
\* the one loaded; with no modified path nothing is written.  When the
\* document is gone the update matches nothing: Mongoose rejects
\* (DocumentNotFoundError), or, with no modified path, may send nothing.
ListSave(p) ==
    /\ req[p].pc = "L_save"
    /\ LET r    == req[p]
           doc  == r.docs[r.i]
           more == r.i < Len(r.docs)
           next == [r EXCEPT !.i = r.i + 1,
                             !.pc = IF more THEN "L_students" ELSE "L_refetch"]
       IN  IF doc.id \in DOMAIN teachers
           THEN /\ teachers' = IF r.val = doc.totalEarnings THEN teachers
                               ELSE [teachers EXCEPT ![doc.id].totalEarnings = r.val]
                /\ req' = [req EXCEPT ![p] = next]
           ELSE /\ teachers' = teachers
                /\ \E rejects \in {TRUE} \cup {r.val # doc.totalEarnings} :
                      req' = [req EXCEPT ![p] =
                                 IF rejects
                                 THEN [Respond(r, 500, CatchMessage("list"), NoOut)
                                          EXCEPT !.threw = TRUE]
                                 ELSE next]
    /\ UNCHANGED <<batches, students, sales, minted, started, lastList>>
    /\ UNCHANGED pageVars

\* const updatedTeachers = await Teacher.find(); res.status(200).json(...)
ListRefetch(p) ==
    /\ req[p].pc = "L_refetch"
    /\ req' = [req EXCEPT ![p] = Respond(req[p], 200, "", teachers)]
    /\ lastList' = [valid |-> TRUE, quiet |-> TRUE, again |-> lastList.valid,
                    out |-> teachers]
    /\ UNCHANGED <<teachers, batches, students, sales, minted, started>>
    /\ UNCHANGED pageVars

----------------------------------------------------------------------------
(* GET /api/teachers/:teacherId                                            *)

GetReceive(p, id) ==
    LET r == [Idle EXCEPT !.op = "get", !.id = id, !.pc = "G_find"]
    IN  Receive(p, IF IsValidId(id) THEN r
                   ELSE Respond(r, 400, "Invalid Teacher ID", NoOut))

\* const teacher = await Teacher.findById(teacherId)
GetFind(p) ==
    /\ req[p].pc = "G_find"
    /\ req' = [req EXCEPT ![p] =
                  IF req[p].id \in DOMAIN teachers
                  THEN Respond(req[p], 200, "", req[p].id :> teachers[req[p].id])
                  ELSE Respond(req[p], 404, "Teacher not found", NoOut)]
    /\ UNCHANGED <<teachers, batches, students, sales, minted, started, lastList>>
    /\ UNCHANGED pageVars

----------------------------------------------------------------------------
(* PUT /api/teachers/:id                                                   *)

PutReceive(p, id, body) ==
    LET r == [Idle EXCEPT !.op = "put", !.id = id, !.body = body,
                          !.pc = IF body.email # "" THEN "P_check" ELSE "P_update"]
    IN  Receive(p, IF IsValidId(id) THEN r
                   ELSE Respond(r, 400, "Invalid Teacher ID", NoOut))

\* mutant: the teacher's own record counts as a holder of the email
EmailTakenByAny(email, id) ==
    \E t \in DOMAIN teachers : teachers[t].email = email

\* Teacher.findOne({ email, _id: { $ne: id } }) finds a document
EmailTakenByOther(email, id) ==
    \E t \in DOMAIN teachers : teachers[t].email = email /\ t # id

\* const existingTeacher = await Teacher.findOne(...)
PutCheck(p) ==
    /\ req[p].pc = "P_check"
    /\ req' = [req EXCEPT ![p] =
                  IF EmailTakenByOther(req[p].body.email, req[p].id)
                  THEN Respond(req[p], 400,
                               "Another teacher with this email already exists", NoOut)
                  ELSE [req[p] EXCEPT !.pc = "P_update"]]
    /\ UNCHANGED <<teachers, batches, students, sales, minted, started, lastList>>
    /\ UNCHANGED pageVars

\* a path of the update; an undefined one (held as "") is left as it is
Assigned(old, new) == IF new = "" THEN old ELSE new

\* { name, email, phone, specialization, status } applied to a document
Updated(doc, body) ==
    [doc EXCEPT !.name = Assigned(doc.name, body.name),
                !.email = Assigned(doc.email, body.email),
                !.phone = Assigned(doc.phone, body.phone),
                !.specialization = Assigned(doc.specialization, body.specialization),
                !.status = Assigned(doc.status, body.status)]

\* const updatedTeacher = await Teacher.findByIdAndUpdate(id, ..., { new: true })
PutUpdate(p) ==
    /\ req[p].pc = "P_update"
    /\ LET r == req[p]
       IN  IF r.id \in DOMAIN teachers
           THEN LET doc == Updated(teachers[r.id], r.body)
                IN  /\ teachers' = [teachers EXCEPT ![r.id] = doc]
                    /\ req' = [req EXCEPT ![p] = Respond(r, 200, "", r.id :> doc)]
                    /\ lastList' = AfterWrite(lastList, FALSE)
           ELSE /\ req' = [req EXCEPT ![p] = Respond(r, 404, "Teacher not found", NoOut)]
                /\ UNCHANGED <<teachers, lastList>>
    /\ UNCHANGED <<batches, students, sales, minted, started>>
    /\ UNCHANGED pageVars

----------------------------------------------------------------------------
(* POST /api/teachers                                                      *)

MissingRequired(body) ==
    body.name = "" \/ body.email = "" \/ body.phone = "" \/ body.password = ""

\* requests that will still mint an ObjectId
PostsBeforeMint == {q \in Slots : req[q].pc \in {"C_check", "C_hash"}}

PostReceive(p, body) ==
    LET r == [Idle EXCEPT !.op = "post", !.body = body, !.pc = "C_check"]
    IN  /\ minted + Cardinality(PostsBeforeMint \ {p}) < Len(IdOrder)
        /\ Receive(p, IF MissingRequired(body)
                      THEN Respond(r, 400,
                                   "Name, email, phone, and password are required.", NoOut)
                      ELSE r)

\* mutant: the lookup never finds a document
EmailNeverTaken(email) == FALSE

\* Teacher.findOne({ email }) finds a document
EmailTaken(email) == \E t \in DOMAIN teachers : teachers[t].email = email

\* const existingTeacher = await Teacher.findOne({ email })
PostCheck(p) ==
    /\ req[p].pc = "C_check"
    /\ req' = [req EXCEPT ![p] =
                  IF EmailTaken(req[p].body.email)
                  THEN Respond(req[p], 400, "Teacher with this email already exists", NoOut)
                  ELSE [req[p] EXCEPT !.pc = "C_hash"]]
    /\ UNCHANGED <<teachers, batches, students, sales, minted, started, lastList>>
    /\ UNCHANGED pageVars

\* await bcrypt.genSalt(10); await bcrypt.hash(password, salt);
\* new Teacher({...}), whose _id is minted here
PostHash(p) ==
    /\ req[p].pc = "C_hash"
    /\ minted' = minted + 1
    /\ req' = [req EXCEPT ![p].id = IdOrder[minted + 1], ![p].pc = "C_save"]
    /\ UNCHANGED <<teachers, batches, students, sales, started, lastList>>
    /\ UNCHANGED pageVars

\* the document new Teacher({...}) builds
NewTeacher(body) ==
    [name |-> body.name, email |-> body.email, phone |-> body.phone,
     specialization |-> body.specialization,
     status |-> IF body.status # "" THEN body.status ELSE "active",
     totalEarnings |-> 0, role |-> "Teacher",
     password |-> Hashed(body.password)]

\* await newTeacher.save(); res.status(201).json(newTeacher)
PostSave(p) ==
    /\ req[p].pc = "C_save"
    /\ LET r   == req[p]
           doc == NewTeacher(r.body)
       IN  /\ teachers' = teachers @@ (r.id :> doc)
           /\ req' = [req EXCEPT ![p] = Respond(r, 201, "", r.id :> doc)]
    /\ lastList' = AfterWrite(lastList, FALSE)
    /\ UNCHANGED <<batches, students, sales, minted, started>>
    /\ UNCHANGED pageVars

----------------------------------------------------------------------------
(* DELETE /api/teachers/:id                                                *)

DeleteReceive(p, id) ==
    LET r == [Idle EXCEPT !.op = "delete", !.id = id, !.pc = "D_delete"]
    IN  Receive(p, IF IsValidId(id) THEN r
                   ELSE Respond(r, 400, "Invalid Teacher ID", NoOut))

\* mutant: the cleanup runs whether or not a document was deleted
DeleteTeacherUnchecked(p) ==
    /\ req[p].pc = "D_delete"
    /\ teachers' = [t \in DOMAIN teachers \ {req[p].id} |-> teachers[t]]
    /\ req' = [req EXCEPT ![p].pc = "D_batches"]
    /\ lastList' = AfterWrite(lastList, FALSE)
    /\ UNCHANGED <<batches, students, sales, minted, started>>
    /\ UNCHANGED pageVars

\* mutant: the batches are cleared in the same step as the deletion
DeleteTeacherCascading(p) ==
    /\ req[p].pc = "D_delete"
    /\ LET r == req[p]
       IN  IF r.id \in DOMAIN teachers
           THEN /\ teachers' = [t \in DOMAIN teachers \ {r.id} |-> teachers[t]]
                /\ batches' = [b \in DOMAIN batches |->
                                  IF batches[b].teacher = r.id
                                  THEN [batches[b] EXCEPT !.teacher = NoRef]
                                  ELSE batches[b]]
                /\ req' = [req EXCEPT ![p].pc = "D_batches"]
                /\ lastList' = AfterWrite(lastList, FALSE)
           ELSE /\ req' = [req EXCEPT ![p] = Respond(r, 404, "Teacher not found", NoOut)]
                /\ UNCHANGED <<teachers, batches, lastList>>
    /\ UNCHANGED <<students, sales, minted, started>>
    /\ UNCHANGED pageVars

\* const deletedTeacher = await Teacher.findByIdAndDelete(id)
DeleteTeacher(p) ==
    /\ req[p].pc = "D_delete"
    /\ LET r == req[p]
       IN  IF r.id \in DOMAIN teachers
           THEN /\ teachers' = [t \in DOMAIN teachers \ {r.id} |-> teachers[t]]
                /\ req' = [req EXCEPT ![p].pc = "D_batches"]
                /\ lastList' = AfterWrite(lastList, FALSE)
           ELSE /\ req' = [req EXCEPT ![p] = Respond(r, 404, "Teacher not found", NoOut)]
                /\ UNCHANGED <<teachers, lastList>>
    /\ UNCHANGED <<batches, students, sales, minted, started>>
    /\ UNCHANGED pageVars

\* mutant: only the first batch of the teacher is cleared (updateOne)
UnsetTeacherOnce(id) ==
    LET hit == {b \in DOMAIN batches : batches[b].teacher = id}
    IN  IF hit = {} THEN batches
        ELSE LET b1 == CHOOSE b \in hit : TRUE
             IN  [batches EXCEPT ![b1].teacher = NoRef]

\* Batch.updateMany({ teacher: id }, { $unset: { teacher: "" } })
UnsetTeacher(id) ==
    [b \in DOMAIN batches |->
        IF batches[b].teacher = id THEN [batches[b] EXCEPT !.teacher = NoRef]
        ELSE batches[b]]

\* await Batch.updateMany(...)
DeleteBatchRefs(p) ==
    /\ req[p].pc = "D_batches"
    /\ batches' = UnsetTeacher(req[p].id)
    /\ req' = [req EXCEPT ![p].pc = "D_students"]
    /\ lastList' = AfterWrite(lastList, FALSE)
    /\ UNCHANGED <<teachers, students, sales, minted, started>>
    /\ UNCHANGED pageVars

\* mutant: the whole list of a matching student is emptied
PullTeacherClearsList(id) ==
    [s \in DOMAIN students |->
        IF id \in Range(students[s].teachers)
        THEN [students[s] EXCEPT !.teachers = <<>>]
        ELSE students[s]]

\* Student.updateMany({ teachers: id }, { $pull: { teachers: id } })
PullTeacher(id) ==
    [s \in DOMAIN students |->
        [students[s] EXCEPT !.teachers = SelectSeq(students[s].teachers,
                                                   LAMBDA t : t # id)]]

\* await Student.updateMany(...); res.json({ message })
DeleteStudentRefs(p) ==
    /\ req[p].pc = "D_students"
    /\ students' = PullTeacher(req[p].id)
    /\ req' = [req EXCEPT ![p] =
                  Respond(req[p], 200, "Teacher deleted and references cleaned", NoOut)]
    /\ lastList' = AfterWrite(lastList, students' # students)
    /\ UNCHANGED <<teachers, batches, sales, minted, started>>
    /\ UNCHANGED pageVars

----------------------------------------------------------------------------
(* The rest of the platform: a pending sale is completed.                  *)

SaleCompletes(x) ==
    /\ sales[x].status = "pending"
    /\ sales' = [sales EXCEPT ![x].status = "completed"]
    /\ lastList' = AfterWrite(lastList, TRUE)
    /\ UNCHANGED <<teachers, batches, students, minted, req, started>>
    /\ UNCHANGED pageVars

----------------------------------------------------------------------------
(* Specifications.                                                         *)

\* the page with nothing in flight
UiIdle ==
    /\ page = PageState(<<BatchA>>)
    /\ calls = <<>>
    /\ view = NoView
    /\ hist = NoHist

PageIdle ==
    /\ clock = 0
    /\ batch = [startDate |-> DateString(0), endDate |-> DateString(MaxDay),
                revenue |-> 0]
    /\ row = NoRow
    /\ UiIdle

Init == ServerInit /\ PageIdle

ReceiveAny(p) ==
    \/ ListReceive(p)
    \/ \E id \in RequestIds : GetReceive(p, id)
    \/ \E id \in RequestIds, body \in PutBodies : PutReceive(p, id, body)
    \/ \E body \in PostBodies : PostReceive(p, body)
    \/ \E id \in DeleteIds : DeleteReceive(p, id)

Step(p) ==
    \/ ListFind(p) \/ ListStudents(p) \/ ListSales(p) \/ ListSave(p) \/ ListRefetch(p)
    \/ GetFind(p)
    \/ PutCheck(p) \/ PutUpdate(p)
    \/ PostCheck(p) \/ PostHash(p) \/ PostSave(p)
    \/ DeleteTeacher(p) \/ DeleteBatchRefs(p) \/ DeleteStudentRefs(p)
    \/ StoreThrows(p)

\* requests interleave at every await
Next ==
    \/ \E p \in Slots : (started < MaxRequests /\ ReceiveAny(p)) \/ Step(p)
    \/ \E x \in SaleIds : SaleCompletes(x)

Spec == Init /\ [][Next]_vars

Quiescent == \A q \in Slots : ~InFlight(q)

\* one request at a time: nothing else runs while a handler is in flight
SeqNext ==
    \/ \E p \in Slots :
          (Quiescent /\ started < MaxSeqRequests /\ ReceiveAny(p)) \/ Step(p)
    \/ \E x \in SaleIds : Quiescent /\ SaleCompletes(x)

SeqSpec == Init /\ [][SeqNext]_vars

StatusInit ==
    /\ ServerInit
    /\ clock = 0
    /\ batch \in [startDate : DateStrings, endDate : DateStrings, revenue : {200000}]
    /\ row = NoRow
    /\ UiIdle

StatusNext == RenderRow \/ Tick

StatusSpec == StatusInit /\ [][StatusNext]_vars

AllocInit ==
    /\ ServerInit
    /\ clock = 0
    /\ batch \in [startDate : {DateString(0)}, endDate : {DateString(MaxDay)},
                  revenue : 0..MaxRevenueCents]
    /\ row = NoRow
    /\ UiIdle

AllocNext == RenderRow

AllocSpec == AllocInit /\ [][AllocNext]_vars

\* The page after mount: the dummy batch in batchesData and the useEffect's
\* fetchBatches() suspended at its await.
PageInit ==
    /\ ServerInit
    /\ clock = 0
    /\ batch = [startDate |-> DateString(0), endDate |-> DateString(MaxDay),
                revenue |-> 0]
    /\ row = NoRow
    /\ page = [PageState(<<BatchA>>) EXCEPT !.isLoading = TRUE]
    /\ calls = <<Call("fetch", 0, <<>>)>>
    /\ view = NoView
    /\ hist = NoHist

PageNext ==
    \/ OpenAddDialog \/ CloseAddDialog
    \/ \E day \in Days : handleDayToggle(day)
    \/ handleAddBatch
    \/ \E id \in {BatchA._id, BatchB._id} : handleEditBatch(id)
    \/ CloseEditDialog
    \/ handleUpdateBatch
    \/ \E k \in DOMAIN RowsShown : handleDeleteClick(RowsShown[k])
    \/ CancelDelete
    \/ handleDeleteConfirm
    \/ \E k \in DOMAIN calls, ok \in BOOLEAN :
          \/ AddBatchDone(k, ok)
          \/ UpdateBatchDone(k, ok)
          \/ DeleteBatchDone(k, ok)
          \/ \E data \in FetchResults : FetchBatchesDone(k, ok, data)

PageSpec == PageInit /\ [][PageNext]_vars

\* what the search box and the records may hold
Terms == {<<>>, <<"a">>, <<"A">>, <<"B">>, <<"a", "b">>, <<"b", "a">>}
FilterBatches ==
    [_id : {1},
     batchName : {NoName, Name(<<>>), Name(<<"A">>), Name(<<"a", "B">>), Name(<<"b">>)},
     status : {"", "ongoing", "completed"},
     startDate : {DateString(1), Garbage}, endDate : {DateString(2)},
     scheduleDays : {<<"Monday">>}]

FilterInit ==
    /\ ServerInit
    /\ clock = 0
    /\ batch = [startDate |-> DateString(0), endDate |-> DateString(MaxDay),
                revenue |-> 0]
    /\ row = NoRow
    /\ page \in {PageState(<<b>>) : b \in FilterBatches}
                \cup {PageState(<<BatchA, BatchB>>)}
    /\ calls = <<>>
    /\ view = NoView
    /\ hist = NoHist

FilterNext ==
    \/ RenderList
    \/ Tick
    \/ \E term \in Terms : SetSearchTerm(term)
    \/ \E tab \in Tabs : SetActiveTab(tab)

FilterSpec == FilterInit /\ [][FilterNext]_vars

----------------------------------------------------------------------------
(* Claims about the batch page.                                            *)

Rendered == row.status # "none"
StartInstant == batch.startDate.day * TicksPerDay
EndInstant == batch.endDate.day * TicksPerDay
NowBeforeStart == batch.startDate.valid /\ clock < StartInstant
NowAfterEnd == batch.endDate.valid /\ clock > EndInstant
NowWithin ==
    /\ batch.startDate.valid /\ batch.endDate.valid
    /\ StartInstant <= clock /\ clock <= EndInstant

\* C1: getBatchStatus returns exactly one of upcoming, ongoing, completed;
\* upcoming whenever now < start, and ongoing whenever start <= now <= end,
\* the instants now = start and now = end included.
C1_StatusTotalAndInclusive ==
    Rendered =>
        /\ row.status \in {"upcoming", "ongoing", "completed"}
        /\ (NowBeforeStart => row.status = "upcoming")
        /\ (NowWithin => row.status = "ongoing")

\* C1 witness: a row rendered at the very instant of a batch's start, which
\* is also its end.
C1_Witness ==
    /\ Rendered /\ NowWithin
    /\ clock = StartInstant /\ clock = EndInstant /\ clock > 0
    /\ row.status = "ongoing"

\* C2 as stated: completed whenever now > end, whatever the order of
\* startDate and endDate.
C2_CompletedWheneverAfterEnd ==
    (Rendered /\ NowAfterEnd) => row.status = "completed"

\* C2 amended: completed whenever now > end and not now < start; a batch
\* whose dates are inverted and for which end < now < start is upcoming.
C2_CompletedUnlessBeforeStart ==
    /\ (Rendered /\ NowAfterEnd /\ ~NowBeforeStart) => row.status = "completed"
    /\ (Rendered /\ NowAfterEnd /\ NowBeforeStart) => row.status = "upcoming"

\* C2 witness: dates inverted (start after end), now past both, completed.
C2_Witness ==
    /\ Rendered /\ NowAfterEnd /\ ~NowBeforeStart
    /\ batch.startDate.valid /\ StartInstant > EndInstant
    /\ row.status = "completed"

\* round-half-up of pct percent of cents, in cents
HalfUpPercent(cents, pct) == (cents * pct + 50) \div 100

\* C10: the displayed teacher share is revenue * 0.20 and the platform share
\* revenue * 0.30, each rounded (half up) to two decimals, for a revenue in
\* whole cents.
C10_SharesRoundedHalfUp ==
    Rendered =>
        /\ row.teacherShare = HalfUpPercent(batch.revenue, 20)
        /\ row.platformShare = HalfUpPercent(batch.revenue, 30)

----------------------------------------------------------------------------
(* Claims about the teacher routes.                                        *)

Done(p, op) == req[p].op = op /\ req[p].pc = "done"

\* slot p takes the step it is waiting at pc for
Takes(p, pc) == req[p].pc = pc /\ req'[p] # req[p]

Referenced(id) ==
    \/ \E b \in BatchIds : batches[b].teacher = id
    \/ \E s \in StudentIds : id \in Range(students[s].teachers)

\* C3: once DELETE /api/teachers/:id has responded 200 for T, the Teacher
\* record T is absent, no Batch has teacher = T and no Student's teachers
\* list contains T.
C3_DeletedAndUnreferenced ==
    \A p \in Slots :
        (Done(p, "delete") /\ req[p].code = 200) =>
            req[p].id \notin DOMAIN teachers /\ ~Referenced(req[p].id)

\* C3 witness: t1, who taught two batches and two students, was deleted
\* with 200; the students keep their other teacher.
C3_Witness ==
    \E p \in Slots :
        /\ Done(p, "delete") /\ req[p].code = 200 /\ req[p].id = "t1"
        /\ students["s2"].teachers = <<"t2">>
        /\ batches["b1"].teacher = NoRef /\ batches["b3"].teacher = NoRef
        /\ batches["b2"].teacher = "t2"

\* C4: DELETE /api/teachers/:id for a well-formed id with no Teacher record
\* responds 404 (unless the store call itself rejects) without changing
\* any Teacher, Batch or Student record, and the handler ends there: the
\* cleanup of Batches and Students is not run.
C4_DeleteAbsentIs404 ==
    [][\A p \in Slots :
          (Takes(p, "D_delete") /\ req[p].id \notin DOMAIN teachers) =>
              /\ UNCHANGED storeVars
              /\ req'[p].pc = "done"
              /\ (~req'[p].threw => req'[p].code = 404)]_vars

\* C4 witness: t1 existed at first, so this 404 answers a deletion that
\* came after t1 had been deleted.
C4_Witness ==
    \E p \in Slots :
        /\ Done(p, "delete") /\ req[p].code = 404 /\ req[p].id = "t1"
        /\ "t1" \notin DOMAIN teachers

\* the sum, in cents, of the completed sales whose student has t among its
\* teachers
RECURSIVE SumCents(_)
SumCents(xs) ==
    IF xs = {} THEN 0
    ELSE LET x == CHOOSE y \in xs : TRUE
         IN  sales[x].amount + SumCents(xs \ {x})

CompletedSalesOf(t) ==
    {x \in SaleIds : /\ sales[x].status = "completed"
                     /\ t \in Range(students[sales[x].student].teachers)}

\* C5: when a listing responds 200 with no other request interleaved,
\* every teacher's persisted totalEarnings is round2(0.30 * S), S the sum
\* of the completed sales of the teacher's students.
C5_EarningsAreRoundedShare ==
    [][\A p \in Slots :
          (Takes(p, "L_refetch") /\ req'[p].code = 200) =>
              \A t \in DOMAIN teachers' :
                  teachers'[t].totalEarnings =
                      HalfUpPercent(SumCents(CompletedSalesOf(t)), 30)]_vars

\* C5, the part of it that holds: the sales counted are the completed ones
\* of the teacher's students and no others, the rounding being that of
\* toFixed(2) on the product computed in doubles.
C5_EarningsCountCompletedSales ==
    [][\A p \in Slots :
          (Takes(p, "L_refetch") /\ req'[p].code = 200) =>
              \A t \in DOMAIN teachers' :
                  LET found == SelectSeq(SaleOrder, LAMBDA x : x \in CompletedSalesOf(t))
                  IN  teachers'[t].totalEarnings = EarningsOf(found)]_vars

\* C6: a listing that completes after another one, Students and Sales
\* unchanged in between, returns the same totalEarnings for every teacher
\* both return; with nothing written in between it returns the same list
\* and leaves the Teacher records as the first left them.
C6_ListingIsIdempotent ==
    [][\A p \in Slots :
          (Takes(p, "L_refetch") /\ req'[p].code = 200 /\ lastList.valid) =>
              /\ \A t \in DOMAIN lastList.out \cap DOMAIN req'[p].out :
                    req'[p].out[t].totalEarnings = lastList.out[t].totalEarnings
              /\ lastList.quiet =>
                    req'[p].out = lastList.out /\ teachers' = lastList.out]_vars

\* C6 witness: a second listing in a row has completed, with the earnings
\* of the example (24.00 and 9.00).
C6_Witness ==
    /\ lastList.again /\ lastList.quiet
    /\ \E p \in Slots : Done(p, "list") /\ req[p].code = 200
    /\ DOMAIN teachers = {"t1", "t2"}
    /\ teachers["t1"].totalEarnings = 2400
    /\ teachers["t2"].totalEarnings = 900

DuplicateMessage == "Teacher with this email already exists"

\* some Teacher record other than `except` holds the email
HeldBesides(email, except) ==
    \E t \in DOMAIN teachers \ {except} : teachers[t].email = email

\* C7: POST /api/teachers with the email of an existing Teacher responds
\* 400 (unless the store call itself rejects) and creates no record.
C7_PostDuplicateIs400 ==
    [][\A p \in Slots :
          (Takes(p, "C_check") /\ HeldBesides(req[p].body.email, BadId)) =>
              /\ teachers' = teachers
              /\ req'[p].pc = "done"
              /\ (~req'[p].threw =>
                    req'[p].code = 400 /\ req'[p].msg = DuplicateMessage)]_vars

\* C7 witness: a POST with bob@x, the email of t2, was answered 400.
C7_Witness ==
    \E p \in Slots :
        /\ Done(p, "post") /\ req[p].code = 400 /\ req[p].msg = DuplicateMessage
        /\ req[p].body.email = "bob@x"
        /\ DOMAIN teachers = {"t1", "t2"}

\* C8: no two Teacher records have the same email, whatever the
\* interleaving of POST and PUT requests.
C8_EmailsUnique ==
    \A t, u \in DOMAIN teachers :
        teachers[t].email = teachers[u].email => t = u

\* PUT changed this document, and nothing else in the store
PutApplied(p) ==
    LET r == req[p]
    IN  /\ r.id \in DOMAIN teachers
        /\ teachers' = [teachers EXCEPT ![r.id] =
               [name |-> r.body.name, email |-> r.body.email,
                phone |-> r.body.phone, specialization |-> r.body.specialization,
                status |-> r.body.status,
                totalEarnings |-> teachers[r.id].totalEarnings,
                role |-> teachers[r.id].role,
                password |-> teachers[r.id].password]]
        /\ UNCHANGED <<batches, students, sales>>
        /\ req'[p].code = 200
        /\ req'[p].out = (r.id :> teachers'[r.id])

\* C9: PUT /api/teachers/:id, for a well-formed id and one request at a
\* time: 400 and no change when the body's email is that of a different
\* Teacher; else 404 and no change when no Teacher has the id; else (the
\* email being the teacher's own included) 200 with the updated Teacher.
C9_PutOutcomes ==
    [][\A p \in Slots :
          /\ Takes(p, "P_check") =>
                IF HeldBesides(req[p].body.email, req[p].id)
                THEN /\ UNCHANGED storeVars
                     /\ req'[p].pc = "done"
                     /\ ~req'[p].threw => req'[p].code = 400
                ELSE /\ UNCHANGED storeVars
                     /\ ~req'[p].threw => req'[p].pc = "P_update"
          /\ Takes(p, "P_update") =>
                /\ ~HeldBesides(req[p].body.email, req[p].id)
                /\ req'[p].pc = "done"
                /\ IF req[p].id \in DOMAIN teachers
                   THEN IF req'[p].threw THEN UNCHANGED storeVars ELSE PutApplied(p)
                   ELSE /\ UNCHANGED storeVars
                        /\ ~req'[p].threw => req'[p].code = 404]_vars

\* C9 witness: a PUT that kept t1's own email was answered 200 with the
\* updated record.
C9_Witness ==
    \E p \in Slots :
        /\ Done(p, "put") /\ req[p].code = 200 /\ req[p].id = "t1"
        /\ req[p].body.email = "ann@x"
        /\ "t1" \in DOMAIN teachers
        /\ teachers["t1"].name = "Zed" /\ teachers["t1"].email = "ann@x"
        /\ req[p].out = ("t1" :> teachers["t1"])

----------------------------------------------------------------------------
(* Claims about the batch page's dialogs and list.                         *)

\* the step issues a request with this method
Issues(method) == hist'.n = hist.n + 1 /\ hist'.last.method = method

\* C11: a DELETE /api/batches/:id for batch B leaves the page only from the
\* open confirmation dialog that handleDeleteClick(B) opened, with
\* currentBatch being B and not null; a step that closes the dialog without
\* starting the deletion (Cancel) issues no request.
C11_DeleteOnlyAfterConfirm ==
    [][/\ Issues("DELETE") =>
            /\ page.showDeleteDialog
            /\ hist.clicked = hist'.last.id
            /\ page.currentBatch # NoBatch
            /\ page.currentBatch._id = hist'.last.id
       /\ (page.showDeleteDialog /\ ~page'.showDeleteDialog
              /\ page'.isLoading = page.isLoading) =>
            hist'.n = hist.n /\ Len(calls') <= Len(calls)]_vars

\* C11 witness: the DELETE for batch 2, a batch that came with a fetch, is
\* in flight after its row was clicked and the dialog confirmed.
C11_Witness ==
    /\ hist.last.method = "DELETE" /\ hist.last.id = 2
    /\ \E k \in DOMAIN calls : calls[k].kind = "delete" /\ calls[k].id = 2
    /\ ~page.showDeleteDialog

\* the confirmation dialog can be open with currentBatch null (an update
\* that completed underneath it cleared it)
C11_DialogOnNoBatch == page.showDeleteDialog /\ page.currentBatch = NoBatch

----------------------------------------------------------------------------
(* Claims about the teacher routes: failures, order and frame.             *)

ResponseCodes == {200, 201, 400, 404, 500}

\* the awaited calls a handler has still to make, at most
Remaining(r) ==
    CASE r.pc = "L_find"     -> 3 * Len(IdOrder) + 2
      [] r.pc = "L_students" -> 3 * (Len(r.docs) - r.i) + 4
      [] r.pc = "L_sales"    -> 3 * (Len(r.docs) - r.i) + 3
      [] r.pc = "L_save"     -> 3 * (Len(r.docs) - r.i) + 2
      [] r.pc \in {"L_refetch", "G_find", "P_update", "C_save", "D_students"} -> 1
      [] r.pc \in {"P_check", "C_hash", "D_batches"} -> 2
      [] r.pc \in {"C_check", "D_delete"} -> 3
      [] OTHER -> 0

\* C12: every request to the teacher endpoints ends with exactly one
\* response: a handler in flight is at one of its awaited calls and each
\* step leaves it fewer of them to make, so it reaches its response;
\* the response has a status code and is never replaced (the slot only
\* changes again when a new request arrives); when a store call throws,
\* the response is 500 and the handler stops there, the call not being
\* retried.
C12_OneResponseAnd500OnThrow ==
    /\ [][\A p \in Slots :
             /\ (req[p].pc = "done" /\ req'[p] # req[p]) =>
                    started' = started + 1 /\ ~req'[p].threw
             /\ (req[p].pc # "done" /\ req'[p].pc = "done") =>
                    req'[p].code \in ResponseCodes
             /\ (InFlight(p) /\ req'[p].threw) =>
                    /\ req'[p].pc = "done" /\ req'[p].code = 500
                    /\ storeVars' = storeVars]_vars
    /\ [][\A p \in Slots :
             (InFlight(p) /\ req'[p] # req[p]) =>
                 Remaining(req'[p]) < Remaining(req[p])]_vars
    /\ [](\A p \in Slots : InFlight(p) => Remaining(req[p]) > 0)

\* C12 witness: a listing whose store call threw after t1 had been saved
\* was answered 500.
C12_Witness ==
    \E p \in Slots :
        /\ Done(p, "list") /\ req[p].threw /\ req[p].code = 500
        /\ "t1" \in DOMAIN teachers /\ teachers["t1"].totalEarnings = 2400

\* a Batch or a Student refers to a Teacher that is no more
Dangling(id) == id \notin DOMAIN teachers /\ Referenced(id)

\* a DELETE that removed the Teacher has its cleanup still to do
Cleaning(id) ==
    \E p \in Slots : /\ req[p].op = "delete" /\ req[p].id = id
                      /\ req[p].pc \in {"D_batches", "D_students"}

BatchRefs(id) == {b \in BatchIds : batches[b].teacher = id}

\* C13: DELETE /api/teachers/:id runs in the order Teacher, Batches,
\* Students: the first step removes the Teacher and nothing else, so that
\* its references are still there; the second clears the Batches only; the
\* third pulls the id from the Students and answers 200.  When a cleanup
\* step throws the answer is 500 and nothing is restored; references to a
\* deleted Teacher whose cleanup is not in progress stay for good.
C13_DeleteOrderNoRollback ==
    [][/\ \A p \in Slots :
             LET id == req[p].id
             IN  /\ (Takes(p, "D_delete") /\ id \in DOMAIN teachers
                        /\ ~req'[p].threw) =>
                        /\ DOMAIN teachers' = DOMAIN teachers \ {id}
                        /\ batches' = batches /\ students' = students
                        /\ req'[p].pc = "D_batches"
                 /\ (Takes(p, "D_batches") /\ ~req'[p].threw) =>
                        /\ id \notin DOMAIN teachers
                        /\ teachers' = teachers /\ students' = students
                        /\ req'[p].pc = "D_students"
                 /\ (Takes(p, "D_students") /\ ~req'[p].threw) =>
                        /\ id \notin DOMAIN teachers /\ BatchRefs(id) = {}
                        /\ teachers' = teachers /\ batches' = batches
                        /\ req'[p].pc = "done" /\ req'[p].code = 200
                 /\ (req[p].pc \in {"D_batches", "D_students"}
                        /\ req'[p].threw) =>
                        /\ req'[p].pc = "done" /\ req'[p].code = 500
                        /\ storeVars' = storeVars
                        /\ id \notin DOMAIN teachers'
       /\ \A id \in ValidIds :
             (Dangling(id) /\ ~Cleaning(id)) => (Dangling(id) /\ ~Cleaning(id))']_vars

\* C13 witness: the DELETE of t1 was answered 500 after the Teacher had
\* been removed; b1, b3, s1 and s2 refer to t1 and no cleanup is under way.
C13_Witness ==
    /\ \E p \in Slots :
          Done(p, "delete") /\ req[p].id = "t1" /\ req[p].code = 500
    /\ Dangling("t1") /\ ~Cleaning("t1")
    /\ BatchRefs("t1") = {"b1", "b3"}
    /\ students["s1"].teachers = <<"t1">>

\* the list without every occurrence of id, the rest in its order
RECURSIVE ListWithout(_, _)
ListWithout(list, id) ==
    IF list = <<>> THEN <<>>
    ELSE IF Head(list) = id THEN ListWithout(Tail(list), id)
    ELSE <<Head(list)>> \o ListWithout(Tail(list), id)

\* C14: the steps of a DELETE /api/teachers/:id for T delete no Batch and
\* no Student, change a Batch only by clearing the teacher field of one
\* whose teacher is T, change a Student only by removing T from its
\* teachers list (the other ids kept), and leave every other Teacher
\* record, and the Sales, as they are.
C14_DeleteFrame ==
    [][\A p \in Slots :
          (req[p].op = "delete" /\ InFlight(p) /\ req'[p] # req[p]) =>
              LET id == req[p].id
              IN  /\ \A t \in DOMAIN teachers \ {id} :
                        t \in DOMAIN teachers' /\ teachers'[t] = teachers[t]
                  /\ DOMAIN teachers' \subseteq DOMAIN teachers
                  /\ DOMAIN batches' = DOMAIN batches
                  /\ \A b \in DOMAIN batches :
                        \/ batches'[b] = batches[b]
                        \/ /\ batches[b].teacher = id
                           /\ batches'[b] = [batches[b] EXCEPT !.teacher = NoRef]
                  /\ DOMAIN students' = DOMAIN students
                  /\ \A s \in DOMAIN students :
                        \/ students'[s] = students[s]
                        \/ students'[s] =
                              [students[s] EXCEPT !.teachers = ListWithout(@, id)]
                  /\ sales' = sales]_vars

\* C14 witness: t1 was deleted with 200; every batch and student is still
\* there with its name, s2 keeps t2, b2 keeps t2, and t2's record exists.
C14_Witness ==
    /\ \E p \in Slots :
          Done(p, "delete") /\ req[p].code = 200 /\ req[p].id = "t1"
    /\ "t2" \in DOMAIN teachers /\ teachers["t2"].email = "bob@x"
    /\ batches = ("b1" :> [teacher |-> NoRef, batchName |-> "B1"])
                  @@ ("b2" :> [teacher |-> "t2", batchName |-> "B2"])
                  @@ ("b3" :> [teacher |-> NoRef, batchName |-> "B3"])
    /\ students = ("s1" :> [teachers |-> <<>>, name |-> "S1"])
                   @@ ("s2" :> [teachers |-> <<"t2">>, name |-> "S2"])

\* C15: two listings that interleave write a teacher's totalEarnings with
\* no version check: a save whose value differs from the one it loaded
\* overwrites whatever is stored by then, so the last such save wins.
C15_LastSaveWins ==
    [][\A p \in Slots :
          LET doc == req[p].docs[req[p].i]
          IN  (Takes(p, "L_save") /\ ~req'[p].threw
                 /\ doc.id \in DOMAIN teachers) =>
                  /\ doc.id \in DOMAIN teachers'
                  /\ teachers'[doc.id].totalEarnings =
                        IF req[p].val # doc.totalEarnings THEN req[p].val
                        ELSE teachers[doc.id].totalEarnings]_vars

\* C15 witness: sale x4 completed between the reads of two listings; one
\* listing returned 9.07 for t2, the other saved later and returned 9.00,
\* the value of the older sales, and that is what stays persisted.
C15_Witness ==
    /\ sales["x4"].status = "completed"
    /\ "t2" \in DOMAIN teachers /\ teachers["t2"].totalEarnings = 900
    /\ \E p, q \in Slots :
          /\ Done(p, "list") /\ req[p].code = 200
          /\ Done(q, "list") /\ req[q].code = 200
          /\ "t2" \in DOMAIN req[p].out /\ req[p].out["t2"].totalEarnings = 907
          /\ "t2" \in DOMAIN req[q].out /\ req[q].out["t2"].totalEarnings = 900

\* C16: when teacher.save() fails inside the loop of GET /api/teachers the
\* handler ends at once with 500 and no list: the teachers after it are
\* not processed, and nothing is rolled back, the totalEarnings saved
\* earlier in the loop staying as written.
C16_SaveFailureStopsLoop ==
    [][\A p \in Slots :
          (req[p].pc = "L_save" /\ req'[p].threw) =>
              /\ req'[p].pc = "done" /\ req'[p].code = 500
              /\ req'[p].out = NoOut
              /\ req'[p].msg = "Failed to fetch teachers"
              /\ storeVars' = storeVars]_vars

\* C16 witness: the only request so far, a listing, was answered 500 after
\* it had saved 24.00 for t1; t2, whose sales give 9.00, is still at 0.
C16_Witness ==
    /\ started = 1
    /\ \E p \in Slots :
          Done(p, "list") /\ req[p].threw /\ req[p].code = 500 /\ req[p].out = NoOut
    /\ DOMAIN teachers = {"t1", "t2"}
    /\ teachers["t1"].totalEarnings = 2400
    /\ teachers["t2"].totalEarnings = 0
    /\ sales = InitialSales

----------------------------------------------------------------------------
(* Claims about the list of the batch page.                                *)

\* two letters that differ at most in case
SameLetter(x, y) == x = y \/ {x, y} = {"a", "A"} \/ {x, y} = {"b", "B"}

\* the name, taken as empty when the record has none, contains the term,
\* case ignored
ContainsIgnoringCase(name, term) ==
    LET text == IF name.defined THEN name.text ELSE <<>>
    IN  \E k \in 0..(Len(text) - Len(term)) :
            \A j \in 1..Len(term) : SameLetter(text[k + j], term[j])

DerivedStatus(b) == getBatchStatus(b.startDate, b.endDate)

Listed(b) ==
    /\ ContainsIgnoringCase(b.batchName, page.searchTerm)
    /\ (page.activeTab = "all" \/ DerivedStatus(b) = page.activeTab)

\* C17: in a rendered list every row is a record of batchesData with its
\* status replaced by getBatchStatus(startDate, endDate) at render time,
\* whatever status the record carried, and a record has a row iff its
\* batchName contains the search term, case ignored, and the active tab is
\* "all" or its derived status.
C17_DerivedStatusAndFilter ==
    view.rendered =>
        /\ \A k \in DOMAIN view.rows :
              \E i \in DOMAIN page.batchesData :
                  view.rows[k] = [page.batchesData[i] EXCEPT
                                     !.status = DerivedStatus(page.batchesData[i])]
        /\ \A i \in DOMAIN page.batchesData :
              Listed(page.batchesData[i]) <=>
                  \E k \in DOMAIN view.rows :
                      view.rows[k]._id = page.batchesData[i]._id

\* C17 witness: on the tab "upcoming" with the term "B", batch 2, stored
\* as completed and named "b", is listed as upcoming; batch 1, named "aB"
\* but ongoing, is not listed.
C17_Witness ==
    /\ view.rendered
    /\ page.batchesData = <<BatchA, BatchB>>
    /\ page.searchTerm = <<"B">> /\ page.activeTab = "upcoming"
    /\ view.rows = <<[BatchB EXCEPT !.status = "upcoming"]>>

\* C18: no step of GET /api/teachers creates or deletes a Teacher, changes
\* any field of a Teacher other than totalEarnings, or changes a Student,
\* Sales or Batch record, whatever other requests have done meanwhile.
C18_ListFrame ==
    [][\A p \in Slots :
          (req[p].op = "list" /\ InFlight(p) /\ req'[p] # req[p]) =>
              /\ DOMAIN teachers' = DOMAIN teachers
              /\ \A t \in DOMAIN teachers :
                    teachers'[t] = [teachers[t] EXCEPT
                                       !.totalEarnings = teachers'[t].totalEarnings]
              /\ batches' = batches
              /\ students' = students
              /\ sales' = sales]_vars

\* C18 witness: a PUT renamed t1 before the listing saved t1's earnings
\* (the PUT returned totalEarnings 0); the listing returned t1 with the new
\* name and status and with 24.00.
C18_Witness ==
    \E p, q \in Slots :
        /\ Done(p, "list") /\ req[p].code = 200
        /\ Done(q, "put") /\ req[q].code = 200 /\ req[q].id = "t1"
        /\ req[q].out["t1"].totalEarnings = 0
        /\ "t1" \in DOMAIN req[p].out
        /\ req[p].out["t1"].name = "Zed" /\ req[p].out["t1"].status = "inactive"
        /\ req[p].out["t1"].totalEarnings = 2400
        /\ teachers = req[p].out

\* the listing's save of a Teacher that a DELETE removed meanwhile: the
\* listing is at the save of t1, t1 is gone
C18_SaveOfDeleted ==
    \E p \in Slots :
        /\ req[p].op = "list" /\ req[p].pc = "L_save"
        /\ req[p].docs[req[p].i].id = "t1" /\ "t1" \notin DOMAIN teachers

\* C19: the scheduleDays in the body of handleAddBatch's POST are, without
\* duplicates, exactly the days toggled on since the Add Batch dialog was
\* last opened; no day left in the selection by an Edit dialog that was
\* cancelled is among them.
C19_AddSendsToggledDays ==
    [][Issues("POST") =>
          /\ Range(hist'.last.scheduleDays) = hist.toggled
          /\ Len(hist'.last.scheduleDays) = Cardinality(hist.toggled)]_vars

====
